---- MODULE Spec2Model ----
(***************************************************************************)
(* Model of the YouTube data fetcher: the partial-failure-tolerant         *)
(* aggregation engine (app.py), the tool facade built on it                *)
(* (mcp_server.py) and the dual-server supervisor with its /mcp proxy      *)
(* (main.py).                                                              *)
(***************************************************************************)
EXTENDS Integers, Sequences, FiniteSets, TLC

(***************************************************************************)
(* Bounds of the model.                                                    *)
(***************************************************************************)
\* number of threads that call start_mcp_server (caller 0 is the call made
\* while main.py is imported)
MaxCallers == 3
\* number of requests the /mcp proxy handles in one behaviour
MaxProxy == 2
\* number of requests the REST and tool handlers answer in one behaviour
MaxRequests == 2
\* entries an lru_cache holds before it evicts (the code: 100)
CacheCapacity == 1

None == "None"

VARIABLES
    \* ---- main.py -------------------------------------------------------
    mcp_server_started,   \* _mcp_server_started
    mcp_startup_lock,     \* _mcp_startup_lock: its holder, or None
    spc,                  \* position of each caller inside start_mcp_server
    mcp_threads,          \* number of threading.Thread(run_mcp_server) started
    listener,             \* state of the uvicorn listener on 127.0.0.1:8000
    nproxy,               \* number of requests proxy_mcp has handled
    proxied               \* what proxy_mcp did with the last request

VARIABLES
    \* ---- app.py / mcp_server.py ----------------------------------------
    cache,       \* the lru_cache of every memoized function, oldest first
    req,         \* the request being handled: endpoint, key, position
    fut,         \* outcome of each future of the running fan-out
    completion,  \* fields in the order in which their fetches completed
    order,       \* fields in the order in which as_completed yields them
    unified,     \* what get_unified_video_data returned to the handler
    computed,    \* per key: executions of the aggregate, their upstream calls
                 \* per fetcher, and the result of the last execution
    nreq,        \* number of requests accepted so far
    last         \* the answer to the last request, until the next is accepted

VARIABLES
    \* ---- mcp_server.py: search_youtube_content, get_channel_overview ----
    tcache,      \* the lru_cache of search_youtube_videos, get_channel_info
                 \* and get_channel_uploads, oldest first
    search,      \* the last call of search_youtube_content
    overview,    \* the last call of get_channel_overview
    ntool        \* number of tool calls made so far

VARIABLES
    \* ---- app.py: parse_duration ------------------------------------------
    duration     \* the last contentDetails.duration get_video_statistics
                 \* was given and what it made of it

supVars == <<mcp_server_started, mcp_startup_lock, spc, mcp_threads,
             listener, nproxy, proxied>>

aggVars == <<cache, req, fut, completion, order, unified, computed, nreq,
             last>>

toolVars == <<tcache, search, overview, ntool, duration>>

VARIABLES
    \* ---- app.py: request threads calling one memoized fetcher ------------
    handlers     \* per request thread: the fetcher and key it was asked
                 \* for, its position inside the lru_cache wrapper, and
                 \* what it obtained

vars == <<mcp_server_started, mcp_startup_lock, spc, mcp_threads,
          listener, nproxy, proxied,
          cache, req, fut, completion, order, unified, computed, nreq, last,
          tcache, search, overview, ntool, duration, handlers>>

(***************************************************************************)
(* main.py: start_mcp_server, run_mcp_server                               *)
(***************************************************************************)
Callers == 0 .. (MaxCallers - 1)
ImportCaller == 0
NoHolder == -1

\* `with _mcp_startup_lock:` can be entered when nobody holds the lock
LockFreeUnguarded(holder) == TRUE
LockFree(holder) == holder = NoHolder

\* the value start_mcp_server stores in _mcp_server_started after
\* mcp_thread.start()
StartedAfterStartNever == FALSE
StartedAfterStart == TRUE

NoProxied == [method |-> None, forwarded |-> FALSE, status |-> 0,
              kind |-> None, flagAt |-> FALSE, threadsAt |-> 0,
              listenerAt |-> None, path |-> <<>>, query |-> <<>>,
              headers |-> {}, url |-> [suffix |-> <<>>, query |-> <<>>],
              filtered_headers |-> {}]

SupInit ==
    /\ mcp_server_started = FALSE
    /\ mcp_startup_lock = NoHolder
    /\ spc = [c \in Callers |-> "idle"]
    /\ mcp_threads = 0
    /\ listener = "NotStarted"
    /\ nproxy = 0
    /\ proxied = NoProxied

\* with _mcp_startup_lock:  (enter)
AcquireLock(c) ==
    /\ spc[c] = "idle"
    /\ LockFree(mcp_startup_lock)
    /\ mcp_startup_lock' = c
    /\ spc' = [spc EXCEPT ![c] = "check"]
    /\ UNCHANGED aggVars
    /\ UNCHANGED toolVars
    /\ UNCHANGED handlers
    /\ UNCHANGED <<mcp_server_started, mcp_threads, listener, nproxy, proxied>>

\* if not _mcp_server_started:
CheckStarted(c) ==
    /\ spc[c] = "check"
    /\ spc' = [spc EXCEPT ![c] = IF mcp_server_started THEN "release"
                                                       ELSE "thread"]
    /\ UNCHANGED aggVars
    /\ UNCHANGED toolVars
    /\ UNCHANGED handlers
    /\ UNCHANGED <<mcp_server_started, mcp_startup_lock, mcp_threads,
                   listener, nproxy, proxied>>

\* mcp_thread = threading.Thread(target=run_mcp_server); mcp_thread.start()
StartThread(c) ==
    /\ spc[c] = "thread"
    /\ mcp_threads' = mcp_threads + 1
    /\ listener' = IF listener = "NotStarted" THEN "Starting" ELSE listener
    /\ spc' = [spc EXCEPT ![c] = "flag"]
    /\ UNCHANGED aggVars
    /\ UNCHANGED toolVars
    /\ UNCHANGED handlers
    /\ UNCHANGED <<mcp_server_started, mcp_startup_lock, nproxy, proxied>>

\* _mcp_server_started = True
SetStarted(c) ==
    /\ spc[c] = "flag"
    /\ mcp_server_started' = StartedAfterStart
    /\ spc' = [spc EXCEPT ![c] = "release"]
    /\ UNCHANGED aggVars
    /\ UNCHANGED toolVars
    /\ UNCHANGED handlers
    /\ UNCHANGED <<mcp_startup_lock, mcp_threads, listener, nproxy, proxied>>

\* with _mcp_startup_lock:  (exit)
ReleaseLock(c) ==
    /\ spc[c] = "release"
    /\ mcp_startup_lock' = IF mcp_startup_lock = c THEN NoHolder
                                                   ELSE mcp_startup_lock
    /\ spc' = [spc EXCEPT ![c] = "done"]
    /\ UNCHANGED aggVars
    /\ UNCHANGED toolVars
    /\ UNCHANGED handlers
    /\ UNCHANGED <<mcp_server_started, mcp_threads, listener, nproxy, proxied>>

\* run_mcp_server: uvicorn.run binds 127.0.0.1:8000 some time after the
\* thread was started
ListenerBinds ==
    /\ listener = "Starting"
    /\ listener' = "Running"
    /\ UNCHANGED aggVars
    /\ UNCHANGED toolVars
    /\ UNCHANGED handlers
    /\ UNCHANGED <<mcp_server_started, mcp_startup_lock, spc, mcp_threads,
                   nproxy, proxied>>

(***************************************************************************)
(* main.py: proxy_mcp                                                      *)
(***************************************************************************)
Methods == {"GET", "POST", "OPTIONS"}

\* what requests.request(..., timeout=30) can do, given the listener's state:
\* nothing accepts on the port until uvicorn has bound it
TransportOutcomes(l) ==
    IF l = "Running" THEN {"ok", "ConnectTimeout", "ReadTimeout", "Other"}
                     ELSE {"ConnectionError"}

\* the except clauses of proxy_mcp, in their order: ConnectTimeout is a
\* subclass of both requests.exceptions.ConnectionError and Timeout
ProxyStatus(kind) ==
    CASE kind = "ok" -> 200
      [] kind \in {"ConnectionError", "ConnectTimeout"} -> 502
      [] kind = "ReadTimeout" -> 504
      [] OTHER -> 500

\* A header name is the sequence of its words, which "-" separates:
\* <<"X", "Forwarded", "Proto">> is X-Forwarded-Proto.  request.headers
\* yields every name once, in this capitalisation.
HostHeader == <<"Host">>
HeaderNames ==
    {<<"Forwarded">>, <<"X", "Forwarded", "Proto">>,
     <<"X", "Forwarded", "Host">>, <<"X", "Forwarded", "For">>,
     <<"X", "Forwarded", "Port">>, <<"X", "Forwarded", "Ssl">>,
     <<"Content", "Type">>}

Header(n) == [name |-> n, value |-> "v"]

\* the header sets of incoming requests: Host alone or with one other header
IncomingHeaders ==
    {{Header(HostHeader)}}
    \cup {{Header(HostHeader), Header(n)} : n \in HeaderNames}

\* skip_headers
skip_headers ==
    {<<"Host">>, <<"X", "Forwarded", "Proto">>, <<"X", "Forwarded", "Host">>,
     <<"X", "Forwarded", "For">>, <<"X", "Forwarded", "Port">>,
     <<"Forwarded">>}

\* for key, value in request.headers: if key not in skip_headers: ...
FilterHeaders(headers) == {h \in headers : h.name \notin skip_headers}

\* A query string is the sequence of its name=value pairs as received;
\* a value is one character, written as it travels: "%20" is the encoded
\* space, which urlencode writes "+".  A query has at most two pairs.
ParamValues == {"1", "%20"}
\* the parameter a with either value, and the parameter b
Params ==
    [name : {"a"}, value : ParamValues] \cup [name : {"b"}, value : {"1"}]
Queries == UNION {[1..n -> Params] : n \in 0..2}

unquote_plus(c) == IF c \in {"%20", "+"} THEN " " ELSE c
quote_plus(c) == IF c = " " THEN "+" ELSE c

\* request.args: a MultiDict, the names in the order of their first
\* occurrence, each with the list of its decoded values
RECURSIVE MultiDictOf(_, _)
MultiDictOf(q, d) ==
    IF q = <<>> THEN d
    ELSE LET p == Head(q)
             v == unquote_plus(p.value)
             at == {i \in 1..Len(d) : d[i].name = p.name}
         IN IF at = {}
            THEN MultiDictOf(Tail(q),
                             Append(d, [name |-> p.name, values |-> <<v>>]))
            ELSE LET i == CHOOSE j \in at : TRUE
                 IN MultiDictOf(Tail(q),
                                [d EXCEPT ![i].values = Append(@, v)])

request_args(q) == MultiDictOf(q, <<>>)

\* urlencode(request.args): urlencode iterates args.items(), and items() of
\* a MultiDict yields each name once, with the first of its values
urlencode(args) ==
    [i \in 1..Len(args) |->
        [name |-> args[i].name, value |-> quote_plus(args[i].values[1])]]

Paths == {<<>>, <<"sse">>}

\* path_suffix = f"/{path}" if path else ""; if request.args: the query
\* string is appended (an empty query part stands for no "?")
ForwardUrl(path, q) ==
    [suffix |-> IF path # <<>> THEN <<"/">> \o path ELSE <<>>,
     query |-> IF request_args(q) # <<>> THEN urlencode(request_args(q))
                                         ELSE <<>>]

\* the requests the proxy is sent: either the headers or the query vary
ProxyRequests ==
    {[path |-> p, query |-> <<>>, headers |-> {Header(HostHeader)}] :
        p \in Paths}
    \cup {[path |-> <<>>, query |-> <<>>, headers |-> h] :
        h \in IncomingHeaders}
    \cup {[path |-> <<>>, query |-> q, headers |-> {Header(HostHeader)}] :
        q \in Queries}

\* the routes are registered after the call of start_mcp_server() made at
\* import, so a request is handled only once that call has returned
ProxyMcp(m, rq) ==
    /\ spc[ImportCaller] = "done"
    /\ nproxy < MaxProxy
    /\ nproxy' = nproxy + 1
    /\ IF m = "OPTIONS"
       THEN proxied' = [NoProxied EXCEPT
                          !.method = m, !.status = 200,
                          !.flagAt = mcp_server_started,
                          !.threadsAt = mcp_threads, !.listenerAt = listener]
       ELSE \E k \in TransportOutcomes(listener) :
              proxied' = [method |-> m, forwarded |-> TRUE,
                          status |-> ProxyStatus(k), kind |-> k,
                          flagAt |-> mcp_server_started,
                          threadsAt |-> mcp_threads, listenerAt |-> listener,
                          path |-> rq.path, query |-> rq.query,
                          headers |-> rq.headers,
                          url |-> ForwardUrl(rq.path, rq.query),
                          filtered_headers |-> FilterHeaders(rq.headers)]
    /\ UNCHANGED aggVars
    /\ UNCHANGED toolVars
    /\ UNCHANGED handlers
    /\ UNCHANGED <<mcp_server_started, mcp_startup_lock, spc, mcp_threads,
                   listener>>

(***************************************************************************)
(* app.py: keys and is_valid_video_id                                      *)
(***************************************************************************)
\* A key is a sequence of characters.  "a", "Z", "0", "_" and "-" stand
\* for the class [A-Za-z0-9_-]; "!" is a character outside the class and
\* "LF" is the newline character.
IdChars == {"a", "Z", "0", "_", "-"}

KeyLen == 11

Good11 == <<"a", "Z", "0", "_", "-", "a", "Z", "0", "_", "-", "a">>
Short10 == SubSeq(Good11, 1, 10)
Long12 == Good11 \o <<"a">>
Bang11 == [Good11 EXCEPT ![11] = "!"]
GoodLF == Good11 \o <<"LF">>
Short10LF == Short10 \o <<"LF">>
NoKey == <<>>

RequestKeys == {Good11, Short10, Long12, Bang11, GoodLF, Short10LF}

\* exactly 11 characters drawn from A-Z, a-z, 0-9, '_' and '-'
ExactShape(s) == Len(s) = KeyLen /\ \A i \in 1 .. KeyLen : s[i] \in IdChars

\* re.match(r'^[A-Za-z0-9_-]{11}$', video_id): in Python `$` matches at the
\* end of the string and also just before a newline that ends the string
is_valid_video_id(s) ==
    /\ Len(s) \in {KeyLen, KeyLen + 1}
    /\ \A i \in 1 .. KeyLen : s[i] \in IdChars
    /\ Len(s) = KeyLen + 1 => s[KeyLen + 1] = "LF"

(***************************************************************************)
(* mcp_server.py: extract_video_id                                         *)
(***************************************************************************)
\* An input of analyze is a bare string or a URL: a known prefix followed
\* by the characters id.  "short" is https://youtu.be/<id>, "watch" is
\* https://www.youtube.com/watch?v=<id>, "other" is a URL of another site.
UrlShapes == {"short", "watch"}
AnalyzeInputs ==
    [shape : {"bare"}, id : RequestKeys]
    \cup [shape : UrlShapes, id : {Good11, Long12, Bang11}]
    \cup [shape : {"other"}, id : {Good11}]

\* the group ([^"&?\/\s]{11}) of the pattern: 11 characters, none of them
\* white space (of the characters of the model only the newline is excluded)
GroupMatches(id) ==
    /\ Len(id) >= KeyLen
    /\ \A i \in 1 .. KeyLen : id[i] # "LF"

extract_video_id(inp) ==
    IF inp.shape = "bare"
    THEN IF is_valid_video_id(inp.id) THEN [ok |-> TRUE, id |-> inp.id]
                                      ELSE [ok |-> FALSE, id |-> NoKey]
    ELSE IF /\ inp.shape \in UrlShapes
            /\ GroupMatches(inp.id)
            /\ is_valid_video_id(SubSeq(inp.id, 1, KeyLen))
         THEN [ok |-> TRUE, id |-> SubSeq(inp.id, 1, KeyLen)]
         ELSE [ok |-> FALSE, id |-> NoKey]

(***************************************************************************)
(* app.py: the memoized fetchers                                           *)
(***************************************************************************)
FieldSet == {"transcript", "metadata", "statistics"}
\* the order in which get_unified_video_data submits the fetches
Fields == <<"transcript", "metadata", "statistics">>
Fetchers == FieldSet \cup {"comments"}
CacheNames == FieldSet \cup {"video_comments", "comments_for_video", "unified"}

EmptyList == "[]"

\* what the upstream of a fetcher can answer: a payload (the transcript and
\* the comment list can be empty; the metadata and statistics records always
\* carry their keys) or an exception, named by its class or message
Payloads(f) ==
    CASE f = "transcript" -> {EmptyList, "segments"}
      [] f = "metadata"   -> {"metadata"}
      [] f = "statistics" -> {"statistics"}
      [] f = "comments"   -> {EmptyList, "comments"}

Failures(f) ==
    CASE f = "transcript" -> {"NoTranscriptFound"}
      [] f = "metadata"   -> {"Video not found"}
      [] f = "statistics" -> {"Access forbidden"}
      [] f = "comments"   -> {"Comments are disabled for this video"}

\* upstream has data only for identifiers of the exact shape; every other
\* key that gets this far is answered with an error
Outcomes(f, k) ==
    IF ExactShape(k)
    THEN [ok : {TRUE}, v : Payloads(f)] \cup [ok : {FALSE}, v : Failures(f)]
    ELSE [ok : {FALSE}, v : Failures(f)]

\* functools.lru_cache(maxsize=...): entries oldest first
CacheHas(c, k) == \E i \in 1 .. Len(c) : c[i].k = k
CacheIndex(c, k) == CHOOSE i \in 1 .. Len(c) : c[i].k = k
CacheGet(c, k) == c[CacheIndex(c, k)].v
CacheRemove(c, i) == SubSeq(c, 1, i - 1) \o SubSeq(c, i + 1, Len(c))
\* a hit moves the entry to the most recently used end
CacheHit(c, k) == CacheRemove(c, CacheIndex(c, k)) \o <<c[CacheIndex(c, k)]>>
CacheStoreNothing(c, k, v, maxsize) == c

\* a miss stores the computed value, evicting the oldest entry when full
CacheStore(c, k, v, maxsize) ==
    IF CacheHas(c, k) THEN c
    ELSE IF Len(c) >= maxsize THEN Tail(c) \o <<[k |-> k, v |-> v]>>
    ELSE Append(c, [k |-> k, v |-> v])

MemoizedWithFailures(c, k, o) ==
    IF CacheHas(c, k)
    THEN [res |-> [ok |-> FALSE, v |-> CacheGet(c, k)], c |-> CacheHit(c, k),
          miss |-> FALSE]
    ELSE [res |-> o,
          c |-> IF o.ok THEN c ELSE CacheStore(c, k, o.v, CacheCapacity),
          miss |-> TRUE]
\* one call of a memoized function: the cached value on a hit, otherwise the
\* outcome o of the wrapped call, which is stored only when it returned
\* (lru_cache does not memoize a call that raised)
Memoized(c, k, o) ==
    IF CacheHas(c, k)
    THEN [res |-> [ok |-> TRUE, v |-> CacheGet(c, k)], c |-> CacheHit(c, k),
          miss |-> FALSE]
    ELSE [res |-> o,
          c |-> IF o.ok THEN CacheStore(c, k, o.v, CacheCapacity) ELSE c,
          miss |-> TRUE]

\* the keys that can reach a fetcher
CacheKeys == {k \in RequestKeys : is_valid_video_id(k)}

(***************************************************************************)
(* app.py: get_unified_video_data                                          *)
(***************************************************************************)
BaseQuotaCost == 3

InitialResultStaleError(k) ==
    [success |-> TRUE, partial_success |-> FALSE, video_id |-> k,
     quota_cost |-> BaseQuotaCost, transcript |-> None, metadata |-> None,
     statistics |-> None,
     errors |-> <<[field |-> "metadata", error |-> "Video not found"]>>]
InitialResult(k) ==
    [success |-> TRUE, partial_success |-> FALSE, video_id |-> k,
     quota_cost |-> BaseQuotaCost, transcript |-> None, metadata |-> None,
     statistics |-> None, errors |-> <<>>]

NoFuture == [st |-> "none", ok |-> FALSE, v |-> None]
PendingFuture == [st |-> "pending", ok |-> FALSE, v |-> None]
NoFutures == [f \in FieldSet |-> NoFuture]

ProcessFutureNoFlag(r, f, o) ==
    IF o.ok
    THEN [r EXCEPT ![f] = o.v]
    ELSE [r EXCEPT ![f] = None,
                   !.errors = Append(@, [field |-> f, error |-> o.v])]

\* the body of `for future in as_completed(futures)` for one future
ProcessFuture(r, f, o) ==
    IF o.ok
    THEN [r EXCEPT ![f] = o.v]
    ELSE [r EXCEPT ![f] = None,
                   !.errors = Append(@, [field |-> f, error |-> o.v]),
                   !.partial_success = TRUE]

RECURSIVE CollectFutures(_, _, _)
CollectFutures(r, ord, outs) ==
    IF ord = <<>> THEN r
    ELSE CollectFutures(ProcessFuture(r, Head(ord), outs[Head(ord)]),
                        Tail(ord), outs)

\* truth value of a payload in Python: None and the empty list are false
Truthy(v) == v \notin {None, EmptyList}
NotNone(v) == v # None

\* if result['errors'] and not any([transcript, metadata, statistics]):
\*     result['success'] = False
AnyData(r) == Truthy(r.transcript) \/ Truthy(r.metadata) \/ Truthy(r.statistics)

ClassifyUnifiedAnyError(r) ==
    IF r.errors # <<>> THEN [r EXCEPT !.success = FALSE] ELSE r

ClassifyUnified(r) ==
    IF r.errors # <<>> /\ ~AnyData(r) THEN [r EXCEPT !.success = FALSE] ELSE r

\* the orders in which as_completed can yield the futures that had already
\* finished when it was called: it collects them in a set, so any order
Perms(S) == {p \in [1 .. Cardinality(S) -> S] :
               \A i, j \in 1 .. Cardinality(S) : p[i] = p[j] => i = j}

(***************************************************************************)
(* mcp_server.py: analyze_video                                            *)
(***************************************************************************)
AnalyzeQuotaCost == 4
CommentsQuotaCost == 1

AnalyzeInitial(k) ==
    [success |-> TRUE, video_id |-> k, transcript |-> None, metadata |-> None,
     statistics |-> None, comments |-> None, partial_success |-> FALSE,
     quota_cost |-> AnalyzeQuotaCost, errors |-> <<>>]

ExtractionFailureCharged ==
    [AnalyzeInitial(NoKey) EXCEPT
        !.success = FALSE,
        !.errors = <<[field |-> "video_id", error |-> "ValueError"]>>]
\* the result returned when extract_video_id raises ValueError
ExtractionFailure ==
    [AnalyzeInitial(NoKey) EXCEPT
        !.success = FALSE, !.quota_cost = 0,
        !.errors = <<[field |-> "video_id", error |-> "ValueError"]>>]

\* lines 141-155: the data of the base aggregate merged into the result
MergeUnified(r, u) ==
    [r EXCEPT !.transcript = u.transcript,
              !.metadata = u.metadata,
              !.statistics = u.statistics,
              !.errors = @ \o u.errors,
              !.partial_success = IF u.errors # <<>> THEN TRUE ELSE @,
              !.quota_cost = u.quota_cost]

MergeCommentsFirst(r, o) ==
    IF o.ok
    THEN [r EXCEPT !.comments = o.v, !.quota_cost = @ + CommentsQuotaCost]
    ELSE [r EXCEPT !.comments = None,
                   !.errors = <<[field |-> "comments", error |-> o.v]>> \o @,
                   !.partial_success = TRUE]
\* lines 162-171: the comments merged into the result
MergeComments(r, o) ==
    IF o.ok
    THEN [r EXCEPT !.comments = o.v, !.quota_cost = @ + CommentsQuotaCost]
    ELSE [r EXCEPT !.comments = None,
                   !.errors = Append(@, [field |-> "comments", error |-> o.v]),
                   !.partial_success = TRUE]

\* lines 173-182
HasAnyData(r) ==
    \/ NotNone(r.transcript) \/ NotNone(r.metadata)
    \/ NotNone(r.statistics) \/ NotNone(r.comments)

ClassifyAnalyze(r) == IF ~HasAnyData(r) THEN [r EXCEPT !.success = FALSE] ELSE r

(***************************************************************************)
(* The request handlers.  One handler runs at a time; inside it the three  *)
(* fetches of get_unified_video_data run concurrently.                     *)
(***************************************************************************)
NoReq == [ep |-> None, key |-> NoKey, pc |-> "idle", hit |-> FALSE,
          calls |-> 0, up |-> 0]

NoEntry ==
    [ep |-> None, input |-> NoKey, shape |-> "bare", key |-> NoKey,
     status |-> 0, body |-> None, hit |-> FALSE, calls |-> 0, up |-> 0,
     hasBase |-> FALSE, base |-> InitialResult(NoKey),
     hasResult |-> FALSE, result |-> AnalyzeInitial(NoKey),
     outs |-> NoFutures, cout |-> NoFuture,
     completion |-> <<>>, order |-> <<>>]

AggInit ==
    /\ cache = [n \in CacheNames |-> <<>>]
    /\ req = NoReq
    /\ fut = NoFutures
    /\ completion = <<>>
    /\ order = <<>>
    /\ unified = InitialResult(NoKey)
    /\ computed = [k \in CacheKeys |->
                     [n |-> 0, ups |-> [f \in FieldSet |-> 0],
                      r |-> InitialResult(NoKey)]]
    /\ nreq = 0
    /\ last = NoEntry

\* a handler thread takes the next request
CanAccept == req.pc = "idle" /\ nreq < MaxRequests

\* the status unified_video_data answers with for a result of the aggregate
VideoStatus(r) ==
    IF ~r.success THEN 500
    ELSE IF r.partial_success THEN 207
    ELSE 200

Answer(e) ==
    /\ last' = e
    /\ req' = NoReq
    /\ fut' = NoFutures
    /\ completion' = <<>>
    /\ order' = <<>>
    /\ unified' = InitialResult(NoKey)

\* get_unified_video_data is entered: a hit of its own lru_cache returns the
\* memoized result, a miss submits the three fetches to the executor
Submit(ep, k) ==
    /\ req' = [NoReq EXCEPT !.ep = ep, !.key = k, !.pc = "submitted"]
    /\ fut' = [f \in FieldSet |-> PendingFuture]
    /\ completion' = <<>>
    /\ order' = <<>>
    /\ last' = NoEntry
    /\ UNCHANGED <<cache, unified>>

\* GET /api/video/<video_id>: unified_video_data up to the call of
\* get_unified_video_data
Video(k) ==
    /\ CanAccept
    /\ nreq' = nreq + 1
    /\ UNCHANGED computed
    /\ IF ~is_valid_video_id(k)
       THEN /\ Answer([NoEntry EXCEPT !.ep = "video", !.input = k,
                                      !.status = 400])
            /\ UNCHANGED cache
       ELSE IF CacheHas(cache["unified"], k)
       THEN /\ Answer([NoEntry EXCEPT
                         !.ep = "video", !.input = k, !.key = k, !.hit = TRUE,
                         !.hasBase = TRUE,
                         !.base = CacheGet(cache["unified"], k),
                         !.status = VideoStatus(CacheGet(cache["unified"], k))])
            /\ cache' = [cache EXCEPT !["unified"] = CacheHit(@, k)]
       ELSE Submit("video", k)
    /\ UNCHANGED supVars
    /\ UNCHANGED toolVars
    /\ UNCHANGED handlers

\* the analyze tool: analyze_video up to the call of get_unified_video_data
Analyze(inp) ==
    /\ CanAccept
    /\ nreq' = nreq + 1
    /\ UNCHANGED computed
    /\ LET ex == extract_video_id(inp) IN
       IF ~ex.ok
       THEN /\ Answer([NoEntry EXCEPT !.ep = "analyze", !.input = inp.id,
                                      !.shape = inp.shape, !.hasResult = TRUE,
                                      !.result = ExtractionFailure])
            /\ UNCHANGED cache
       ELSE IF CacheHas(cache["unified"], ex.id)
       THEN /\ req' = [NoReq EXCEPT !.ep = "analyze", !.key = ex.id,
                                    !.hit = TRUE, !.pc = "comments"]
            /\ unified' = CacheGet(cache["unified"], ex.id)
            /\ cache' = [cache EXCEPT !["unified"] = CacheHit(@, ex.id)]
            /\ last' = NoEntry
            /\ UNCHANGED <<fut, completion, order>>
       ELSE Submit("analyze", ex.id)
    /\ UNCHANGED supVars
    /\ UNCHANGED toolVars
    /\ UNCHANGED handlers

SettledUnlessFailed(res) ==
    IF res.ok THEN [st |-> "done", ok |-> res.ok, v |-> res.v]
              ELSE PendingFuture
\* the future of a submitted fetch whose call has returned or raised: the
\* executor runs the callable once and keeps its result or its exception in
\* the future, where future.result() finds it
Settled(res) == [st |-> "done", ok |-> res.ok, v |-> res.v]

\* one worker of the ThreadPoolExecutor runs its fetcher to completion
WorkerRuns(f) ==
    /\ req.pc \in {"submitted", "collecting"}
    /\ fut[f].st = "pending"
    /\ \E o \in Outcomes(f, req.key) :
         LET m == Memoized(cache[f], req.key, o) IN
         /\ cache' = [cache EXCEPT ![f] = m.c]
         /\ fut' = [fut EXCEPT ![f] = Settled(m.res)]
         /\ computed' = IF m.miss
                        THEN [computed EXCEPT ![req.key].ups[f] = @ + 1]
                        ELSE computed
         /\ req' = [req EXCEPT !.calls = @ + 1,
                               !.up = @ + (IF m.miss THEN 1 ELSE 0)]
    /\ completion' = Append(completion, f)
    \* a future that finishes while as_completed waits is yielded next
    /\ order' = IF req.pc = "collecting" THEN Append(order, f) ELSE order
    /\ UNCHANGED <<unified, nreq, last>>
    /\ UNCHANGED supVars
    /\ UNCHANGED toolVars
    /\ UNCHANGED handlers

\* as_completed(futures) is called: the futures that have finished by now
\* are yielded first, in the iteration order of a set
AsCompleted ==
    /\ req.pc = "submitted"
    /\ \E p \in Perms({f \in FieldSet : fut[f].st = "done"}) :
         order' = [i \in 1 .. Len(p) |-> p[i]]
    /\ req' = [req EXCEPT !.pc = "collecting"]
    /\ UNCHANGED <<cache, fut, completion, unified, computed, nreq, last>>
    /\ UNCHANGED supVars
    /\ UNCHANGED toolVars
    /\ UNCHANGED handlers

\* every future was yielded and processed: the executor is shut down, the
\* result is classified, memoized and returned to the caller
ReturnUnified ==
    /\ req.pc = "collecting"
    /\ Len(order) = Len(Fields)
    /\ LET r == ClassifyUnified(CollectFutures(InitialResult(req.key),
                                               order, fut)) IN
       /\ cache' = [cache EXCEPT
                      !["unified"] = CacheStore(@, req.key, r, CacheCapacity)]
       /\ IF req.ep = "video"
          THEN Answer([NoEntry EXCEPT
                         !.ep = "video", !.input = req.key, !.key = req.key,
                         !.calls = req.calls, !.up = req.up,
                         !.hasBase = TRUE, !.base = r,
                         !.status = VideoStatus(r), !.outs = fut,
                         !.completion = completion, !.order = order])
          ELSE /\ unified' = r
               /\ req' = [req EXCEPT !.pc = "comments"]
               /\ UNCHANGED <<fut, completion, order, last>>
       /\ computed' = [computed EXCEPT ![req.key].n = @ + 1, ![req.key].r = r]
    /\ UNCHANGED nreq
    /\ UNCHANGED supVars
    /\ UNCHANGED toolVars
    /\ UNCHANGED handlers

\* get_comments_for_video(video_id, max_results=100), which calls
\* get_video_comments; both are memoized
CommentsForVideo(k, o) ==
    IF CacheHas(cache["comments_for_video"], k)
    THEN [res |-> [ok |-> TRUE, v |-> CacheGet(cache["comments_for_video"], k)],
          outer |-> CacheHit(cache["comments_for_video"], k),
          inner |-> cache["video_comments"], miss |-> FALSE]
    ELSE LET m == Memoized(cache["video_comments"], k, o) IN
         [res |-> m.res,
          outer |-> IF m.res.ok
                    THEN CacheStore(cache["comments_for_video"], k, m.res.v,
                                    CacheCapacity)
                    ELSE cache["comments_for_video"],
          inner |-> m.c, miss |-> m.miss]

\* analyze_video after get_unified_video_data returned: the comments are
\* fetched, the result is classified and returned
AnalyzeComments ==
    /\ req.pc = "comments"
    /\ \E o \in Outcomes("comments", req.key) :
         LET m == CommentsForVideo(req.key, o)
             r == ClassifyAnalyze(MergeComments(
                      MergeUnified(AnalyzeInitial(req.key), unified), m.res))
         IN
         /\ cache' = [cache EXCEPT !["comments_for_video"] = m.outer,
                                   !["video_comments"] = m.inner]
         /\ Answer([NoEntry EXCEPT
                      !.ep = "analyze", !.input = req.key,
                      !.key = req.key, !.hit = req.hit,
                      !.calls = req.calls + 1,
                      !.up = req.up + (IF m.miss THEN 1 ELSE 0),
                      !.hasBase = TRUE, !.base = unified,
                      !.hasResult = TRUE, !.result = r,
                      !.outs = fut,
                      !.cout = [st |-> "done", ok |-> m.res.ok, v |-> m.res.v],
                      !.completion = completion, !.order = order])
    /\ UNCHANGED <<computed, nreq>>
    /\ UNCHANGED supVars
    /\ UNCHANGED toolVars
    /\ UNCHANGED handlers

(***************************************************************************)
(* app.py: the endpoints of the single fetchers                            *)
(***************************************************************************)
\* the except clauses of transcript()
TranscriptStatus(err) ==
    CASE err \in {"NoTranscriptFound", "VideoUnavailable"} -> 404
      [] err \in {"RequestBlocked", "ParseError"} -> 503
      [] err \in {"AgeRestricted", "VideoUnplayable"} -> 403
      [] OTHER -> 500

\* the except clause of comments()
CommentsStatus(err) ==
    CASE err = "Comments are disabled for this video" -> 403
      [] err = "quota" -> 429
      [] OTHER -> 500

\* the except clause of metadata() and of statistics()
VideoApiStatus(err) ==
    CASE err = "Video not found" -> 404
      [] err = "Access forbidden" -> 403
      [] OTHER -> 500

InvalidKeyStatus == 400

\* a handler that validates the key and calls one memoized fetcher
FetchEndpoint(ep, cname, k, o, status, body) ==
    IF ~is_valid_video_id(k)
    THEN /\ Answer([NoEntry EXCEPT !.ep = ep, !.input = k,
                                   !.status = InvalidKeyStatus])
         /\ UNCHANGED cache
    ELSE LET m == Memoized(cache[cname], k, o) IN
         /\ cache' = [cache EXCEPT ![cname] = m.c]
         /\ Answer([NoEntry EXCEPT
                      !.ep = ep, !.input = k, !.key = k, !.calls = 1,
                      !.up = IF m.miss THEN 1 ELSE 0,
                      !.hit = ~m.miss,
                      !.status = IF m.res.ok THEN 200 ELSE status[m.res.v],
                      !.body = IF m.res.ok THEN body[m.res.v] ELSE None])

\* GET /api/transcript/<video_id>?timestamps=...
Transcript(k, timestamps) ==
    /\ CanAccept
    /\ nreq' = nreq + 1
    /\ UNCHANGED computed
    /\ \E o \in Outcomes("transcript", k) :
         FetchEndpoint("transcript", "transcript", k, o,
                       [e \in Failures("transcript") |-> TranscriptStatus(e)],
                       \* process_transcript
                       [v \in Payloads("transcript") |->
                           IF timestamps THEN v ELSE "text"])
    /\ UNCHANGED supVars
    /\ UNCHANGED toolVars
    /\ UNCHANGED handlers

\* GET /api/comments/<video_id>: max_results defaults to 100
Comments(k) ==
    /\ CanAccept
    /\ nreq' = nreq + 1
    /\ UNCHANGED computed
    /\ \E o \in Outcomes("comments", k) :
         FetchEndpoint("comments", "video_comments", k, o,
                       [e \in Failures("comments") |-> CommentsStatus(e)],
                       [v \in Payloads("comments") |-> v])
    /\ UNCHANGED supVars
    /\ UNCHANGED toolVars
    /\ UNCHANGED handlers

\* GET /api/metadata/<video_id>
Metadata(k) ==
    /\ CanAccept
    /\ nreq' = nreq + 1
    /\ UNCHANGED computed
    /\ \E o \in Outcomes("metadata", k) :
         FetchEndpoint("metadata", "metadata", k, o,
                       [e \in Failures("metadata") |-> VideoApiStatus(e)],
                       [v \in Payloads("metadata") |-> v])
    /\ UNCHANGED supVars
    /\ UNCHANGED toolVars
    /\ UNCHANGED handlers

\* GET /api/statistics/<video_id>
Statistics(k) ==
    /\ CanAccept
    /\ nreq' = nreq + 1
    /\ UNCHANGED computed
    /\ \E o \in Outcomes("statistics", k) :
         FetchEndpoint("statistics", "statistics", k, o,
                       [e \in Failures("statistics") |-> VideoApiStatus(e)],
                       [v \in Payloads("statistics") |-> v])
    /\ UNCHANGED supVars
    /\ UNCHANGED toolVars
    /\ UNCHANGED handlers

(***************************************************************************)
(* mcp_server.py: search_youtube_content and get_channel_overview          *)
(***************************************************************************)
MaxToolCalls == 2

\* A count input (max_results, max_uploads) is what Optional[int] admits:
\* None, or an integer.
NoCount == [t |-> "none", v |-> 0]
IntCount(n) == [t |-> "int", v |-> n]
DefaultCount == 10
MaxCount == 50
CountInputs == {NoCount} \cup {IntCount(n) : n \in {-1, 0, 1, 2, 50, 51}}

\* `x or 10`: None and 0 are falsy
OrDefault(x) ==
    IF x.t = "none" \/ x.v = 0 THEN DefaultCount ELSE x.v

\* int(x); if x < 1: 1; elif x > 50: 50
ClampBounds(n) == IF n < 1 THEN 1 ELSE IF n > MaxCount THEN MaxCount ELSE n

\* search_youtube_content: max_results = inputs.max_results or 10, then the
\* validation of lines 219-226
ClampMaxResults(x) == ClampBounds(OrDefault(x))

\* get_channel_overview: max_uploads = inputs.max_uploads or 10, then the
\* validation of lines 350-357
ClampMaxUploads(x) == ClampBounds(OrDefault(x))

\* max_results = max(1, min(50, int(max_results))) of the two fetchers
FetcherClamp(n) ==
    LET m == IF n < MaxCount THEN n ELSE MaxCount IN IF m > 1 THEN m ELSE 1

\* the lists of videos upstream can return when asked for at most n
VideoLists(n) == {<<>>, <<"v1">>} \cup (IF n >= 2 THEN {<<"v1", "v2">>} ELSE {})

\* ---- search ------------------------------------------------------------
SearchQuotaCost == 100
SearchQueries == {"", " ", "cats"}
\* not query or not query.strip()
BlankQuery(q) == q \in {"", " "}

SearchFailures ==
    {"YouTube API quota exceeded. Search API is expensive", "HttpError"}
SearchOutcomes(n) ==
    [ok : {TRUE}, v : VideoLists(FetcherClamp(n))]
    \cup [ok : {FALSE}, v : {<<e>> : e \in SearchFailures}]

QuotaMessage(e) ==
    e \in {"YouTube API quota exceeded. Search API is expensive",
           "YouTube API quota exceeded.",
           "Access forbidden. Quota may be exceeded or API key is invalid."}

SearchInitial(q) ==
    [success |-> FALSE, query |-> q, result_count |-> 0,
     quota_cost |-> SearchQuotaCost, videos |-> <<>>, error |-> None]

NoSearch == [called |-> FALSE, input |-> NoCount, passed |-> 0, asked |-> 0,
             calls |-> 0, miss |-> FALSE, result |-> SearchInitial("")]

\* search_youtube_content(inputs)
SearchYoutubeContent(q, x) ==
    /\ ntool < MaxToolCalls
    /\ ntool' = ntool + 1
    /\ UNCHANGED <<overview, duration>>
    /\ LET n == ClampMaxResults(x) IN
       IF BlankQuery(q)
       THEN /\ search' = [NoSearch EXCEPT
                            !.called = TRUE, !.input = x, !.passed = n,
                            !.result = [SearchInitial(q) EXCEPT
                               !.error = "Search query cannot be empty"]]
            /\ tcache' = tcache
       ELSE \E o \in SearchOutcomes(n) :
              LET m == Memoized(tcache["search"], [q |-> q, n |-> n], o)
                  r == IF m.res.ok
                       THEN [SearchInitial(q) EXCEPT
                               !.success = TRUE,
                               !.result_count = Len(m.res.v),
                               !.videos = m.res.v]
                       ELSE [SearchInitial(q) EXCEPT
                               !.error = IF QuotaMessage(m.res.v[1])
                                         THEN "YouTube API quota exceeded."
                                         ELSE "Search failed"]
              IN /\ search' = [called |-> TRUE, input |-> x, passed |-> n,
                               asked |-> IF m.miss THEN FetcherClamp(n) ELSE 0,
                               calls |-> 1, miss |-> m.miss, result |-> r]
                 /\ tcache' = [tcache EXCEPT !["search"] = m.c]
    /\ UNCHANGED <<supVars, aggVars>>
    /\ UNCHANGED handlers

\* ---- channel overview --------------------------------------------------
ChannelIdLen == 22

\* A channel input is a bare text or a URL.  `tail` is the number of
\* characters of [A-Za-z0-9_-] that follow "UC"; `name` tells channels
\* apart; `ws` says that white space surrounds the text (strip() removes
\* it before anything is matched).
ChannelShapes == {"bare", "channel", "custom", "handle", "other"}
ChannelInputs ==
    [shape : {"bare", "channel"}, name : {"A"},
     tail : {ChannelIdLen - 1, ChannelIdLen, ChannelIdLen + 1}, ws : BOOLEAN]
    \cup [shape : {"custom", "handle", "other"}, name : {"A"},
          tail : {ChannelIdLen}, ws : {FALSE}]

\* extract_channel_id: strip(), then ^UC[A-Za-z0-9_-]{22}$ on the whole text,
\* then youtube.com/channel/(UC[A-Za-z0-9_-]{22}) anywhere in it
extract_channel_id(inp) ==
    IF inp.shape = "bare" /\ inp.tail = ChannelIdLen
    THEN [ok |-> TRUE, id |-> inp.name]
    ELSE IF inp.shape = "channel" /\ inp.tail >= ChannelIdLen
    THEN [ok |-> TRUE, id |-> inp.name]
    ELSE [ok |-> FALSE, id |-> None]

ChannelInfoFailures ==
    {"Channel not found",
     "Access forbidden. Quota may be exceeded or API key is invalid.",
     "HttpError"}
ChannelInfoOutcomes ==
    [ok : {TRUE}, v : {<<"channel_info">>}]
    \cup [ok : {FALSE}, v : {<<e>> : e \in ChannelInfoFailures}]

UploadsFailures == {"YouTube API quota exceeded.", "HttpError"}
UploadsOutcomes(n) ==
    [ok : {TRUE}, v : VideoLists(FetcherClamp(n))]
    \cup [ok : {FALSE}, v : {<<e>> : e \in UploadsFailures}]

OverviewQuotaCost == 2
InfoOnlyQuotaCost == 1

OverviewInitial ==
    [success |-> FALSE, channel |-> None, uploads |-> <<>>,
     upload_count |-> 0, quota_cost |-> OverviewQuotaCost, error |-> None]

\* lines 382-391: the error of a failed channel-info fetch
InfoError(e) ==
    IF e = "Channel not found" THEN "Channel not found"
    ELSE IF QuotaMessage(e) THEN "YouTube API quota exceeded."
    ELSE "Failed to fetch channel info"

\* lines 399-404: the error of a failed uploads fetch
UploadsError(e) ==
    IF QuotaMessage(e)
    THEN "Channel info fetched, but uploads failed: quota exceeded"
    ELSE "Channel info fetched, but uploads failed"

NoOverview ==
    [called |-> FALSE, extracted |-> FALSE, input |-> NoCount, passed |-> 0,
     infoCalls |-> 0, uploadsCalls |-> 0,
     info |-> [ok |-> FALSE, v |-> <<>>], ups |-> [ok |-> FALSE, v |-> <<>>],
     result |-> OverviewInitial]

UploadsMergedAsFailure(r, u) ==
    IF u.ok
    THEN [r EXCEPT !.uploads = u.v, !.upload_count = Len(u.v)]
    ELSE [r EXCEPT !.error = UploadsError(u.v[1]), !.success = FALSE,
                   !.channel = None]
\* lines 394-405: the uploads merged into the result
UploadsMerged(r, u) ==
    IF u.ok
    THEN [r EXCEPT !.uploads = u.v, !.upload_count = Len(u.v)]
    ELSE [r EXCEPT !.error = UploadsError(u.v[1])]

InfoFailedUncharged(r, i) ==
    [r EXCEPT !.error = InfoError(i.v[1])]
\* lines 382-392: the result returned when the channel-info fetch failed
InfoFailed(r, i) ==
    [r EXCEPT !.error = InfoError(i.v[1]), !.quota_cost = InfoOnlyQuotaCost]

\* get_channel_overview(inputs)
GetChannelOverview(inp, x) ==
    /\ ntool < MaxToolCalls
    /\ ntool' = ntool + 1
    /\ UNCHANGED <<search, duration>>
    /\ LET n == ClampMaxUploads(x)
           ex == extract_channel_id(inp) IN
       IF ~ex.ok
       THEN /\ overview' = [NoOverview EXCEPT
                              !.called = TRUE, !.input = x, !.passed = n,
                              !.result = [OverviewInitial EXCEPT
                                            !.error = "ValueError",
                                            !.quota_cost = 0]]
            /\ tcache' = tcache
       ELSE \E oi \in ChannelInfoOutcomes :
              LET mi == Memoized(tcache["channel_info"], ex.id, oi) IN
              IF ~mi.res.ok
              THEN /\ overview' = [NoOverview EXCEPT
                                     !.called = TRUE, !.extracted = TRUE,
                                     !.input = x, !.passed = n,
                                     !.infoCalls = 1, !.info = mi.res,
                                     !.result = InfoFailed(OverviewInitial,
                                                           mi.res)]
                   /\ tcache' = [tcache EXCEPT !["channel_info"] = mi.c]
              ELSE \E ou \in UploadsOutcomes(n) :
                     LET mu == Memoized(tcache["channel_uploads"],
                                        [q |-> ex.id, n |-> n], ou)
                         r0 == [OverviewInitial EXCEPT
                                  !.channel = mi.res.v[1], !.success = TRUE]
                     IN /\ overview' =
                             [called |-> TRUE, extracted |-> TRUE,
                              input |-> x, passed |-> n,
                              infoCalls |-> 1, uploadsCalls |-> 1,
                              info |-> mi.res, ups |-> mu.res,
                              result |-> UploadsMerged(r0, mu.res)]
                        /\ tcache' = [tcache EXCEPT
                                        !["channel_info"] = mi.c,
                                        !["channel_uploads"] = mu.c]
    /\ UNCHANGED <<supVars, aggVars>>
    /\ UNCHANGED handlers

ToolCacheNames == {"search", "channel_info", "channel_uploads"}

ToolInit ==
    /\ tcache = [n \in ToolCacheNames |-> <<>>]
    /\ search = NoSearch
    /\ overview = NoOverview
    /\ ntool = 0

ToolNext ==
    \/ \E q \in SearchQueries, x \in CountInputs : SearchYoutubeContent(q, x)
    \/ \E inp \in ChannelInputs, x \in CountInputs : GetChannelOverview(inp, x)

(***************************************************************************)
(* app.py: parse_duration and the duration of get_video_statistics         *)
(***************************************************************************)
\* An ISO 8601 duration is the sequence of its tokens: an optional sign,
\* "P", numbers (runs of digits) followed by their designator, "T" before
\* the time part, ".5" for a fraction of the seconds.
\* <<"P", "T", "1", "H", "90", "M", "1", ".5", "S">> is PT1H90M1.5S.
NumTokens == {"0", "1", "59", "90"}
NumValue(t) ==
    CASE t = "0" -> 0 [] t = "1" -> 1 [] t = "59" -> 59 [] t = "90" -> 90

Opt(S) == {<<>>} \cup S
DatePart == Opt({<<n, "D">> : n \in {"1"}})
TimePart ==
    {<<"T">> \o h \o m \o sec :
        h \in Opt({<<n, "H">> : n \in NumTokens}),
        m \in Opt({<<n, "M">> : n \in NumTokens}),
        sec \in Opt({<<n, "S">> : n \in NumTokens}
                    \cup {<<n, ".5", "S">> : n \in NumTokens})}
    \ {<<"T">>}
Iso8601Durations ==
    {sign \o <<"P">> \o d \o t :
        sign \in {<<>>, <<"-">>}, d \in DatePart, t \in Opt(TimePart)}
    \ {<<"P">>, <<"-", "P">>}

\* what contentDetails.duration can be: absent or empty, a duration, or a
\* text isodate rejects
DurationTexts == {<<>>, <<"abc">>, <<"1", "H">>} \cup Iso8601Durations

SecondsPerHour == 3600
SecondsPerMinute == 60

\* a number followed by the designator `unit` at position i, if there is one
Component(s, i, unit) ==
    IF i + 1 <= Len(s) /\ s[i] \in NumTokens /\ s[i + 1] = unit
    THEN [v |-> NumValue(s[i]), half |-> FALSE, i |-> i + 2]
    ELSE [v |-> 0, half |-> FALSE, i |-> i]

SecondsComponent(s, i) ==
    IF i + 2 <= Len(s) /\ s[i] \in NumTokens /\ s[i + 1] = ".5"
       /\ s[i + 2] = "S"
    THEN [v |-> NumValue(s[i]), half |-> TRUE, i |-> i + 3]
    ELSE Component(s, i, "S")

\* isodate.parse_duration(iso_duration).total_seconds(), in half seconds;
\* ok is FALSE where isodate raises ISO8601Error
IsodateParse(s) ==
    LET signed == Len(s) >= 1 /\ s[1] \in {"-", "+"}
        p == IF signed THEN 2 ELSE 1
        d == Component(s, p + 1, "D")
        hasT == d.i <= Len(s) /\ s[d.i] = "T"
        h == Component(s, d.i + 1, "H")
        m == Component(s, h.i, "M")
        sec == SecondsComponent(s, m.i)
        end == IF hasT THEN sec.i ELSE d.i
        halves == 2 * (d.v * 24 * SecondsPerHour
                       + (IF hasT THEN h.v * SecondsPerHour
                                       + m.v * SecondsPerMinute + sec.v
                                  ELSE 0))
                  + (IF hasT /\ sec.half THEN 1 ELSE 0)
    IN IF /\ Len(s) > p
          /\ s[p] = "P"
          /\ end = Len(s) + 1
          /\ hasT => end > d.i + 1
       THEN [ok |-> TRUE, neg |-> signed /\ s[1] = "-", halves |-> halves]
       ELSE [ok |-> FALSE, neg |-> FALSE, halves |-> 0]

\* int(x) truncates toward zero
IntOfSeconds(neg, halves) ==
    IF neg THEN 0 - (halves \div 2) ELSE halves \div 2

DurationRecordNoCarry(raw, total_seconds) ==
    [ok |-> TRUE, raw |-> raw, total_seconds |-> total_seconds,
     hours |-> total_seconds \div SecondsPerHour,
     minutes |-> total_seconds \div SecondsPerMinute,
     seconds |-> total_seconds % SecondsPerMinute]
\* lines 503-513: // and % of Python round toward minus infinity, as \div
\* and % do
DurationRecord(raw, total_seconds) ==
    [ok |-> TRUE, raw |-> raw, total_seconds |-> total_seconds,
     hours |-> total_seconds \div SecondsPerHour,
     minutes |-> (total_seconds % SecondsPerHour) \div SecondsPerMinute,
     seconds |-> total_seconds % SecondsPerMinute]

\* the exception of isodate leaves parse_duration
DurationError(raw) ==
    [ok |-> FALSE, raw |-> raw, total_seconds |-> 0, hours |-> 0,
     minutes |-> 0, seconds |-> 0]

parse_duration(iso_duration) ==
    LET duration_ == IsodateParse(iso_duration) IN
    IF duration_.ok
    THEN DurationRecord(iso_duration,
                        IntOfSeconds(duration_.neg, duration_.halves))
    ELSE DurationError(iso_duration)

\* get_video_statistics, lines 138-149:
\* parse_duration(duration_raw) if duration_raw else the zero record
StatisticsDuration(duration_raw) ==
    IF duration_raw # <<>> THEN parse_duration(duration_raw)
    ELSE [ok |-> TRUE, raw |-> <<>>, total_seconds |-> 0, hours |-> 0,
          minutes |-> 0, seconds |-> 0]

NoDuration == [fetched |-> FALSE, duration_raw |-> <<>>,
               parsed |-> DurationError(<<>>)]

DurationInit == duration = NoDuration

\* get_video_statistics computes the duration of the video it fetched
ParseStatisticsDuration(duration_raw) ==
    /\ duration' = [fetched |-> TRUE, duration_raw |-> duration_raw,
                    parsed |-> StatisticsDuration(duration_raw)]
    /\ UNCHANGED <<tcache, search, overview, ntool>>
    /\ UNCHANGED <<supVars, aggVars>>
    /\ UNCHANGED handlers

DurationNext == \E d \in DurationTexts : ParseStatisticsDuration(d)

(***************************************************************************)
(* app.py: concurrent request threads and the lru_cache of a fetcher       *)
(***************************************************************************)
MaxHandlers == 2
Handlers == 1 .. MaxHandlers

NoHandler == [pc |-> "idle", f |-> None, key |-> NoKey, miss |-> FALSE,
              up |-> 0, res |-> [ok |-> FALSE, v |-> None], during |-> {}]

\* thread u is inside the call of fetcher f for key k
InFlight(u, f, k) ==
    /\ handlers[u].pc \in {"fetching", "fetched"}
    /\ handlers[u].f = f
    /\ handlers[u].key = k

\* GET /api/<f>/<k> reaches the memoized fetcher: the wrapper of lru_cache
\* looks the key up; a hit returns the cached value, a miss goes on to call
\* the wrapped function
HandlerLookup(t, f, k) ==
    /\ handlers[t].pc = "idle"
    /\ LET others == {u \in Handlers \ {t} : InFlight(u, f, k)} IN
       IF CacheHas(cache[f], k)
       THEN /\ handlers' = [handlers EXCEPT ![t] =
                 [pc |-> "done", f |-> f, key |-> k, miss |-> FALSE,
                  up |-> 0, res |-> [ok |-> TRUE, v |-> CacheGet(cache[f], k)],
                  during |-> others]]
            /\ cache' = [cache EXCEPT ![f] = CacheHit(@, k)]
       ELSE /\ handlers' = [handlers EXCEPT ![t] =
                 [NoHandler EXCEPT !.pc = "fetching", !.f = f, !.key = k,
                                   !.miss = TRUE, !.during = others]]
            /\ cache' = cache
    /\ UNCHANGED <<req, fut, completion, order, unified, computed, nreq, last>>
    /\ UNCHANGED <<supVars, toolVars>>

\* the wrapped function calls upstream and returns or raises
HandlerFetch(t) ==
    /\ handlers[t].pc = "fetching"
    /\ \E o \in Outcomes(handlers[t].f, handlers[t].key) :
         handlers' = [handlers EXCEPT ![t].pc = "fetched", ![t].up = 1,
                                      ![t].res = o]
    /\ UNCHANGED <<supVars, aggVars, toolVars>>

\* back in the wrapper: a returned value is stored (unless the key got into
\* the cache meanwhile), an exception leaves the cache alone
HandlerStore(t) ==
    /\ handlers[t].pc = "fetched"
    /\ handlers' = [handlers EXCEPT ![t].pc = "done"]
    /\ cache' = IF handlers[t].res.ok
                THEN [cache EXCEPT ![handlers[t].f] =
                        CacheStore(@, handlers[t].key, handlers[t].res.v,
                                   CacheCapacity)]
                ELSE cache
    /\ UNCHANGED <<req, fut, completion, order, unified, computed, nreq, last>>
    /\ UNCHANGED <<supVars, toolVars>>

HandlersInit == handlers = [t \in Handlers |-> NoHandler]

HandlersNext ==
    \/ \E t \in Handlers, f \in FieldSet, k \in CacheKeys :
          HandlerLookup(t, f, k)
    \/ \E t \in Handlers : HandlerFetch(t)
    \/ \E t \in Handlers : HandlerStore(t)

Next ==
    \/ \E k \in RequestKeys : Video(k)
    \/ \E inp \in AnalyzeInputs : Analyze(inp)
    \/ \E f \in FieldSet : WorkerRuns(f)
    \/ AsCompleted
    \/ ReturnUnified
    \/ AnalyzeComments
    \/ \E k \in RequestKeys, ts \in BOOLEAN : Transcript(k, ts)
    \/ \E k \in RequestKeys : Comments(k)
    \/ \E k \in RequestKeys : Metadata(k)
    \/ \E k \in RequestKeys : Statistics(k)

SupNext ==
    \/ \E c \in Callers : AcquireLock(c)
    \/ \E c \in Callers : CheckStarted(c)
    \/ \E c \in Callers : StartThread(c)
    \/ \E c \in Callers : SetStarted(c)
    \/ \E c \in Callers : ReleaseLock(c)
    \/ ListenerBinds
    \/ \E m \in Methods, rq \in ProxyRequests : ProxyMcp(m, rq)

Init == SupInit /\ AggInit /\ ToolInit /\ DurationInit /\ HandlersInit

Spec == Init /\ [][Next]_vars

SpecSup == Init /\ [][SupNext]_vars

SpecTools == Init /\ [][ToolNext]_vars

SpecDuration == Init /\ [][DurationNext]_vars

SpecHandlers == Init /\ [][HandlersNext]_vars

(***************************************************************************)
(* Properties                                                              *)
(***************************************************************************)
RestEndpoints == {"video", "transcript", "comments", "metadata", "statistics"}

\* the last answer carries a result of get_unified_video_data that this very
\* request computed (no hit of the aggregate's cache)
Executed(e) == e.hasBase /\ ~e.hit
\* the last answer is a result of analyze_video for an extracted key
Analyzed(e) == e.hasResult /\ e.key # NoKey

FailedFields(e) == {f \in FieldSet : ~e.outs[f].ok}
AllNull(r) == r.transcript = None /\ r.metadata = None /\ r.statistics = None
ErrorFields(r) == [i \in 1 .. Len(r.errors) |-> r.errors[i].field]
RECURSIVE FailedInOrder(_, _)
FailedInOrder(seq, outs) ==
    IF seq = <<>> THEN <<>>
    ELSE IF outs[Head(seq)].ok THEN FailedInOrder(Tail(seq), outs)
    ELSE <<Head(seq)>> \o FailedInOrder(Tail(seq), outs)

\* C1: in every result of the base aggregate and of analyze, success is
\* false if and only if every data field is null (an empty payload is not
\* null and keeps success true).
C1_SuccessIffSomeField ==
    /\ last.hasBase => (~last.base.success <=> AllNull(last.base))
    /\ last.hasResult =>
         (~last.result.success <=>
             (AllNull(last.result) /\ last.result.comments = None))

\* C2 as stated: partial_success is true if and only if errors is non-empty
\* and success is true.
C2_PartialIffErrorsAndSuccess ==
    /\ last.hasBase =>
         (last.base.partial_success <=>
             (last.base.errors # <<>> /\ last.base.success))
    /\ last.hasResult =>
         (last.result.partial_success <=>
             (last.result.errors # <<>> /\ last.result.success))

\* C2 as amended: in every result of the base aggregate, and of analyze once
\* the key was extracted, partial_success is true if and only if errors is
\* non-empty, whatever success is; the extraction failure of analyze has
\* one error record and partial_success false.
C2_PartialIffErrors ==
    /\ last.hasBase =>
         (last.base.partial_success <=> last.base.errors # <<>>)
    /\ Analyzed(last) =>
         (last.result.partial_success <=> last.result.errors # <<>>)
    /\ last.hasResult /\ ~Analyzed(last) =>
         ~last.result.partial_success /\ Len(last.result.errors) = 1

C2_Witness ==
    /\ Executed(last)
    /\ FailedFields(last) = FieldSet
    /\ ~last.base.success
    /\ last.base.partial_success

\* C3: when exactly one of the three fetchers raises and the other two
\* return a payload, in any completion order, the base aggregate returns
\* success and partial_success true, the failing field null with one error
\* record naming it, and the other two fields equal to the payloads returned.
C3_OneFailureIsolated ==
    Executed(last) =>
      \A f \in FieldSet :
        FailedFields(last) = {f} =>
          /\ last.base.success
          /\ last.base.partial_success
          /\ last.base[f] = None
          /\ last.base.errors = <<[field |-> f, error |-> last.outs[f].v]>>
          /\ \A g \in FieldSet \ {f} : last.base[g] = last.outs[g].v

C3_Witness ==
    /\ Executed(last)
    /\ FailedFields(last) = {"metadata"}
    /\ last.outs["transcript"].v = EmptyList
    /\ last.completion = <<"statistics", "metadata", "transcript">>
    /\ last.base.success

\* C4: for every key that is not exactly 11 characters of A-Z, a-z, 0-9,
\* '_' and '-', the five REST endpoints answer 400 and invoke no fetcher.
C4_MalformedKeyRejected ==
    last.ep \in RestEndpoints /\ ~ExactShape(last.input) =>
        last.status = 400 /\ last.calls = 0 /\ last.up = 0

\* C5: GET /api/video/{key} answers 400 iff the key is invalid; otherwise 500
\* iff all three fetches failed, 207 iff at least one failed and at least one
\* succeeded, 200 iff none failed.
C5_VideoStatus ==
    last.ep = "video" =>
      /\ last.status \in {200, 207, 400, 500}
      /\ last.status = 400 <=> ~ExactShape(last.input)
      /\ Executed(last) /\ ExactShape(last.input) =>
           /\ last.status = 500 <=> FailedFields(last) = FieldSet
           /\ last.status = 207 <=>
                (FailedFields(last) # {} /\ FailedFields(last) # FieldSet)
           /\ last.status = 200 <=> FailedFields(last) = {}

\* C6: a second aggregate call with the same key, started after the first
\* returned and with no eviction in between, makes no upstream call (each of
\* the three fetchers has been called upstream once for the key after both
\* calls) and returns the same result as the first.
C6_SecondCallMemoized ==
    /\ last.hasBase /\ last.hit =>
         /\ computed[last.key].n >= 1
         /\ last.base = computed[last.key].r
         /\ last.ep = "video" => last.up = 0 /\ last.calls = 0
    /\ nreq = 2 /\ last.hasBase /\ last.hit =>
         \A f \in FieldSet : computed[last.key].ups[f] = 1
    /\ nreq <= 2 => \A k \in CacheKeys : computed[k].n <= 1

C6_Witness ==
    /\ nreq = 2
    /\ last.ep = "video"
    /\ last.hit
    /\ last.base.errors # <<>>
    /\ \A f \in FieldSet : computed[last.key].ups[f] = 1

\* C7: quota_cost is a constant of the operation: the base aggregate always
\* reports 3 and analyze, once the key was extracted, always reports 4,
\* whichever fetches succeeded or failed.
C7_QuotaCostConstant ==
    /\ last.hasBase => last.base.quota_cost = 3
    /\ Analyzed(last) => last.result.quota_cost = 4

\* C8: in every base result with two or more error records, the records
\* appear in the order in which the failing fetches completed, for every
\* interleaving of the three fetches.
C8_ErrorsInCompletionOrder ==
    Executed(last) /\ Len(last.base.errors) >= 2 =>
        ErrorFields(last.base) = FailedInOrder(last.completion, last.outs)

\* C9: for any number of concurrent calls of start_mcp_server exactly one
\* listener thread is ever created, and the started flag only changes from
\* not-started to started, never back.
C9_SingleStart ==
    /\ [](/\ mcp_threads <= 1
          /\ (\E c \in Callers : spc[c] = "done") =>
                 mcp_threads = 1 /\ mcp_server_started)
    /\ [][mcp_server_started => mcp_server_started']_vars

C9_Witness ==
    /\ \A c \in Callers : spc[c] = "done"
    /\ mcp_threads = 1
    /\ mcp_server_started

\* C10 as stated: whenever a GET or POST to /mcp is forwarded, the listener
\* is already started and accepting connections.
C10_ForwardedWhenReachable ==
    proxied.forwarded => proxied.listenerAt = "Running"

\* C10 as amended: whenever a GET or POST to /mcp is forwarded, the start
\* sequence has been triggered (the flag is set and the one listener thread
\* was created) but start_mcp_server does not wait for the listener: a
\* request forwarded before the listener accepts connections is answered 502.
C10_ForwardedAfterStartTriggered ==
    proxied.forwarded =>
      /\ proxied.flagAt
      /\ proxied.threadsAt = 1
      /\ proxied.listenerAt \in {"Starting", "Running"}
      /\ proxied.listenerAt = "Starting" => proxied.status = 502

C10_Witness ==
    /\ proxied.forwarded
    /\ proxied.listenerAt = "Starting"
    /\ proxied.status = 502

\* C11: for a forwarded GET or POST the failure outcome follows the kind of
\* transport error and the three outcomes are distinct: a connection failure
\* is answered 502, every expiry of the timeout (while connecting or while
\* reading) 504, any other transport error 500; no timeout is reported as
\* 502 and no connection failure as 504.
C11_FailureKindDecidesStatus ==
    proxied.forwarded =>
      /\ proxied.kind = "ConnectionError" => proxied.status = 502
      /\ proxied.kind \in {"ConnectTimeout", "ReadTimeout"} =>
             proxied.status = 504
      /\ proxied.kind = "Other" => proxied.status = 500

\* the name begins with X-Forwarded-
BeginsXForwarded(n) == Len(n) >= 3 /\ n[1] = "X" /\ n[2] = "Forwarded"

Stripped(n) == n \in {<<"Host">>, <<"Forwarded">>} \/ BeginsXForwarded(n)

\* C12: the header set forwarded for a GET or POST to /mcp contains no Host
\* header, no Forwarded header and no header whose name begins with
\* X-Forwarded-, and contains every other incoming header unchanged.
C12_ForwardedHeaders ==
    proxied.forwarded =>
      /\ \A h \in proxied.filtered_headers : ~Stripped(h.name)
      /\ \A h \in proxied.headers :
            ~Stripped(h.name) => h \in proxied.filtered_headers

\* the parameters a query carries: names and decoded values, in order
Decoded(q) ==
    [i \in 1..Len(q) |-> [name |-> q[i].name,
                          value |-> unquote_plus(q[i].value)]]

\* C13: the URL requested from the internal listener is the internal
\* address followed by the path suffix and the query as received: every
\* parameter, each occurrence of a repeated name included, is forwarded with
\* its value and in its order.
C13_ForwardedUrl ==
    proxied.forwarded =>
      /\ proxied.url.suffix =
            (IF proxied.path = <<>> THEN <<>> ELSE <<"/">> \o proxied.path)
      /\ Decoded(proxied.url.query) = Decoded(proxied.query)

\* the last answer is the one analyze_video gives when no key is extracted
NotExtracted(e) == e.ep = "analyze" /\ ~extract_video_id([shape |-> e.shape,
                                                          id |-> e.input]).ok

\* C14: given an input from which no valid key can be extracted, analyze
\* invokes no fetcher and returns a result with success = false,
\* partial_success = false, every data field null, quota_cost 0 and exactly
\* one error record, whose field is video_id.
C14_ExtractionFailureResult ==
    NotExtracted(last) =>
      /\ last.hasResult
      /\ last.calls = 0 /\ last.up = 0 /\ ~last.hasBase
      /\ \A f \in FieldSet : last.outs[f].st = "none"
      /\ last.cout.st = "none"
      /\ ~last.result.success
      /\ ~last.result.partial_success
      /\ AllNull(last.result) /\ last.result.comments = None
      /\ last.result.quota_cost = 0
      /\ Len(last.result.errors) = 1
      /\ last.result.errors[1].field = "video_id"

C14_Witness ==
    /\ NotExtracted(last)
    /\ last.shape = "watch"
    /\ last.hasResult
    /\ nreq = 2

\* the number of invocations of fetcher f in a sequence of invocations
Invocations(seq, f) == Cardinality({i \in 1..Len(seq) : seq[i] = f})

\* C19: within one execution of the base aggregate each of the three
\* fetchers is invoked exactly once whatever it raises (no retry), and the
\* aggregate returns only after all three invocations have settled.
C19_EachFetcherOnce ==
    /\ \A f \in FieldSet : Invocations(completion, f) <= 1
    /\ req.pc = "comments" /\ ~req.hit =>
          \A f \in FieldSet : fut[f].st = "done"
    /\ Executed(last) =>
          \A f \in FieldSet :
             /\ Invocations(last.completion, f) = 1
             /\ last.outs[f].st = "done"

C19_Witness ==
    /\ Executed(last)
    /\ last.ep = "video"
    /\ \A f \in FieldSet : ~last.outs[f].ok
    /\ Len(last.completion) = Len(Fields)

\* C20: in analyze the comments fetch is issued only after the base
\* aggregate has returned, and its outcome changes only comments, errors,
\* partial_success, quota_cost and success: transcript, metadata and
\* statistics equal what the base aggregate returned, whether comments
\* succeeded or failed, and a comments error record comes after all error
\* records of the base aggregate.
C20_CommentsAfterBase ==
    Analyzed(last) =>
      /\ last.hasBase
      /\ last.cout.st = "done"
      /\ last.hit \/ \A f \in FieldSet : last.outs[f].st = "done"
      /\ last.result.transcript = last.base.transcript
      /\ last.result.metadata = last.base.metadata
      /\ last.result.statistics = last.base.statistics
      /\ last.result.video_id = last.base.video_id
      /\ IF last.cout.ok
         THEN /\ last.result.errors = last.base.errors
              /\ last.result.comments = last.cout.v
         ELSE /\ last.result.errors =
                    Append(last.base.errors,
                           [field |-> "comments", error |-> last.cout.v])
              /\ last.result.comments = None

C20_Witness ==
    /\ Analyzed(last)
    /\ ~last.cout.ok
    /\ Len(last.base.errors) = 1
    /\ Len(last.result.errors) = 2
    /\ last.result.metadata # None

\* the count the claim expects for a max_results input
ClampedTo1To50(x) ==
    IF x.t = "none" THEN DefaultCount
    ELSE IF x.v < 1 THEN 1
    ELSE IF x.v > MaxCount THEN MaxCount
    ELSE x.v

\* C17: for every max_results input the count passed to the search fetch is
\* the input clamped to [1,50]: an integer inside [1,50] unchanged, above 50
\* the bound 50, below 1 (0 included) the bound 1, None the default 10.
C17_MaxResultsClamped ==
    search.called /\ search.calls = 1 =>
        search.passed = ClampedTo1To50(search.input)

OverviewUploadsErrors == {UploadsError(e) : e \in UploadsFailures}

\* C15: in channel overview, when the channel-info fetch succeeds and the
\* uploads fetch fails, the result has success = true, a non-null channel
\* equal to the fetched info, uploads empty with upload_count 0, and a
\* non-null error that describes only the uploads failure.
C15_UploadsFailureKeepsChannel ==
    overview.called /\ overview.info.ok /\ overview.uploadsCalls = 1
      /\ ~overview.ups.ok =>
        /\ overview.result.success
        /\ overview.result.channel # None
        /\ overview.result.channel = overview.info.v[1]
        /\ overview.result.uploads = <<>>
        /\ overview.result.upload_count = 0
        /\ overview.result.error \in OverviewUploadsErrors

C15_Witness ==
    /\ overview.called /\ overview.info.ok /\ overview.uploadsCalls = 1
    /\ ~overview.ups.ok
    /\ overview.result.success
    /\ overview.result.error \in OverviewUploadsErrors

\* C16: in channel overview, when the channel-info fetch fails the uploads
\* fetch is never attempted and the result has success = false, channel
\* null, a non-null error and quota_cost 1; when the channel key cannot be
\* extracted neither fetch is attempted and quota_cost is 0.
C16_InfoFailureStops ==
    /\ overview.called /\ overview.extracted /\ ~overview.info.ok =>
        /\ overview.infoCalls = 1
        /\ overview.uploadsCalls = 0
        /\ ~overview.result.success
        /\ overview.result.channel = None
        /\ overview.result.error # None
        /\ overview.result.quota_cost = 1
    /\ overview.called /\ ~overview.extracted =>
        /\ overview.infoCalls = 0
        /\ overview.uploadsCalls = 0
        /\ overview.result.quota_cost = 0

C16_Witness ==
    /\ overview.called /\ overview.extracted /\ ~overview.info.ok
    /\ overview.infoCalls = 1
    /\ overview.result.quota_cost = 1
    /\ ntool = 2

\* C18: for every Duration record the parser produces,
\* hours*3600 + minutes*60 + seconds = total_seconds, minutes and seconds
\* are each in 0..59 and raw is the input string unchanged; for an empty
\* duration string the statistics fetcher yields the zero-duration record
\* (raw empty, all components 0), not an error.
C18_DurationRecord ==
    duration.fetched =>
      /\ duration.parsed.ok =>
           /\ duration.parsed.hours * 3600 + duration.parsed.minutes * 60
                + duration.parsed.seconds = duration.parsed.total_seconds
           /\ duration.parsed.minutes \in 0..59
           /\ duration.parsed.seconds \in 0..59
           /\ duration.parsed.raw = duration.duration_raw
      /\ duration.duration_raw = <<>> =>
           /\ duration.parsed.ok
           /\ duration.parsed.raw = <<>>
           /\ duration.parsed.total_seconds = 0
           /\ duration.parsed.hours = 0
           /\ duration.parsed.minutes = 0
           /\ duration.parsed.seconds = 0

C18_Witness ==
    /\ duration.fetched
    /\ duration.parsed.ok
    /\ duration.duration_raw = <<"P", "T", "1", "H", "90", "M", "59", "S">>
    /\ duration.parsed.total_seconds = 9059
    /\ duration.parsed.hours = 2
    /\ duration.parsed.minutes = 30
    /\ duration.parsed.seconds = 59

\* the number of error records of r that name field f
ErrorsNaming(r, f) ==
    Cardinality({i \in 1..Len(r.errors) : r.errors[i].field = f})

\* C22: in every result returned by the base aggregate each of transcript,
\* metadata and statistics is either non-null with no error record naming
\* it, or null with exactly one error record naming it; the errors list has
\* at most three records and no field name appears twice.
C22_FieldOrOneError ==
    last.hasBase =>
      /\ \A f \in FieldSet :
            \/ last.base[f] # None /\ ErrorsNaming(last.base, f) = 0
            \/ last.base[f] = None /\ ErrorsNaming(last.base, f) = 1
      /\ Len(last.base.errors) <= Cardinality(FieldSet)
      /\ \A i \in 1..Len(last.base.errors) :
            last.base.errors[i].field \in FieldSet

C22_Witness ==
    /\ Executed(last)
    /\ last.base.transcript = EmptyList
    /\ last.base.metadata = None
    /\ last.base.statistics # None
    /\ Len(last.base.errors) = 1

\* C23: a failure is memoized at the aggregate level but not at the fetcher
\* level.  A later aggregate call for a key whose memoized result carries an
\* error record returns that result, null field and error record included,
\* without invoking any fetcher; the cache of a fetcher never holds a
\* failure, so a direct call of the fetcher for that key after its failure
\* calls upstream again (and can succeed).
C23_FailureMemoizedByAggregateOnly ==
    /\ last.hasBase /\ last.hit =>
         /\ last.base = computed[last.key].r
         /\ \A f \in FieldSet : last.outs[f].st = "none"
         /\ last.ep = "video" => last.calls = 0 /\ last.up = 0
    /\ \A f \in FieldSet : \A i \in 1..Len(cache[f]) :
         cache[f][i].v \in Payloads(f)
    /\ Executed(last) =>
         \A f \in FailedFields(last) : ~CacheHas(cache[f], last.key)
    /\ \A f \in FieldSet :
         last.ep = f /\ last.key # NoKey /\ nreq = 2
           /\ computed[last.key].n = 1
           /\ ErrorsNaming(computed[last.key].r, f) = 1 =>
             ~last.hit /\ last.up = 1

C23_Witness ==
    /\ nreq = 2
    /\ last.ep = "metadata"
    /\ last.status = 200
    /\ last.up = 1
    /\ computed[last.key].n = 1
    /\ ErrorsNaming(computed[last.key].r, "metadata") = 1
    /\ CacheHas(cache["unified"], last.key)
    /\ CacheGet(cache["unified"], last.key).metadata = None

\* the aggregate answers from its cache with the memoized error record
C23_WitnessAggregate ==
    /\ last.ep = "video" /\ last.hit
    /\ last.base.metadata = None
    /\ ErrorsNaming(last.base, "metadata") = 1

\* C24: every tool result returned without any fetcher having been invoked
\* reports quota_cost 0: analyze with an unextractable video identifier,
\* channel overview with an unextractable channel identifier, and search
\* with an empty or whitespace-only query.
C24_NoFetchNoQuota ==
    /\ NotExtracted(last) /\ last.hasResult /\ last.calls = 0 =>
         last.result.quota_cost = 0
    /\ overview.called /\ overview.infoCalls = 0
         /\ overview.uploadsCalls = 0 =>
         overview.result.quota_cost = 0
    /\ search.called /\ search.calls = 0 =>
         search.result.quota_cost = 0

\* the calls of threads t and u overlapped in time
Overlapped(t, u) == u \in handlers[t].during \/ t \in handlers[u].during

\* C21: the caches are safe under concurrent request threads with a single
\* writer per key: when two callers request the same uncached key from the
\* same fetcher at overlapping times, at most one upstream call is made for
\* that key and both obtain the same result; the number of cached entries
\* never exceeds the capacity.
C21_SingleWriterPerKey ==
    /\ \A t, u \in Handlers :
         t # u /\ handlers[t].pc = "done" /\ handlers[u].pc = "done"
           /\ handlers[t].f = handlers[u].f
           /\ handlers[t].key = handlers[u].key
           /\ Overlapped(t, u) =>
             /\ handlers[t].up + handlers[u].up <= 1
             /\ handlers[t].res = handlers[u].res
    /\ \A f \in FieldSet : Len(cache[f]) <= CacheCapacity

====
